---- MODULE Spec2Model ----
(***************************************************************************)
(* A model of the OpenWeatherMap client library:                           *)
(*   - py_openweathermap/client.py   : OpenWeatherMapClient                *)
(*   - py_openweathermap/exceptions.py : the error taxonomy                *)
(*   - openweather_python/models.py  : CurrentWeather.from_api_response    *)
(*                                                                         *)
(* Python values are tagged records, so that values of different Python    *)
(* types can be compared.  JSON numbers are modelled by integers: the      *)
(* translator never computes with them, it only copies them, so 280.32 is  *)
(* written 28032 (hundredths) and 51.51 degrees is written 5151.           *)
(***************************************************************************)
EXTENDS Integers, Sequences, FiniteSets, TLC

VARIABLES environ, client, ctor, call, sent, data, parsed

vars == <<environ, client, ctor, call, sent, data, parsed>>

-----------------------------------------------------------------------------
(* Bounds                                                                  *)

\* most calls of get_current_weather_by_coords in one behaviour
MaxCalls == 2

\* longest `weather` array of a generated document
MaxConds == 2

-----------------------------------------------------------------------------
(* Python values                                                           *)

PyNone == [t |-> "none"]
Str(s) == [t |-> "str", s |-> s]
Num(n) == [t |-> "num", n |-> n]
Dict(f) == [t |-> "dict", d |-> f]
List(q) == [t |-> "list", l |-> q]

\* the empty dict {}
EmptyDict == Dict([k \in {} |-> PyNone])

\* Python truthiness (bool(v)), as used by `or` and `not`
Truthy(v) ==
    CASE v.t = "none" -> FALSE
      [] v.t = "str"  -> v.s # ""
      [] v.t = "num"  -> v.n # 0
      [] v.t = "dict" -> DOMAIN v.d # {}
      [] v.t = "list" -> v.l # <<>>

\* str(v), as an f-string formats a value; containers are not formatted here
py_str(v) ==
    CASE v.t = "none" -> "None"
      [] v.t = "str"  -> v.s
      [] v.t = "num"  -> ToString(v.n)

\* an evaluation either yields a value or raises an exception
Ok(v) == [ok |-> TRUE, v |-> v]
Raise(cls, msg) == [ok |-> FALSE, exc |-> [cls |-> cls, msg |-> msg]]

\* marks "this function has not been called"
NotCalled == [t |-> "notcalled"]

-----------------------------------------------------------------------------
(* The exception classes                                                   *)

\* the direct base classes of the library's exceptions
Bases(c) ==
    CASE c = "PyOpenWeatherMapError"    -> {"Exception"}
      [] c = "AuthenticationError"      -> {"PyOpenWeatherMapError"}
      [] c = "WrongLatitudeOrLongitude" -> {"PyOpenWeatherMapError"}
      [] c = "NotFoundError"            -> {"PyOpenWeatherMapError"}
      [] c = "RateLimitError"           -> {"PyOpenWeatherMapError"}
      [] c = "InvalidParameterError"    -> {"PyOpenWeatherMapError"}
      [] c = "APIError"                 -> {"PyOpenWeatherMapError"}
      [] OTHER                          -> {}

\* the requests exceptions the client catches or the transport raises, and
\* the builtin exceptions raised by subscripting and attribute access
ForeignBases(c) ==
    CASE c = "RequestException"  -> {"OSError"}
      [] c = "Timeout"           -> {"RequestException"}
      [] c = "ConnectionError"   -> {"RequestException"}
      [] c = "ConnectTimeout"    -> {"ConnectionError", "Timeout"}
      [] c = "ReadTimeout"       -> {"Timeout"}
      [] c = "InvalidJSONError"  -> {"RequestException"}
      [] c = "JSONDecodeError"   -> {"InvalidJSONError", "ValueError"}
      [] c = "OSError"           -> {"Exception"}
      [] c = "KeyError"          -> {"LookupError"}
      [] c = "LookupError"       -> {"Exception"}
      [] c = "TypeError"         -> {"Exception"}
      [] c = "AttributeError"    -> {"Exception"}
      [] c = "ValueError"        -> {"Exception"}
      [] OTHER                   -> {}

RECURSIVE IsSubclass(_, _)
\* issubclass(c, b)
IsSubclass(c, b) ==
    \/ c = b
    \/ \E p \in Bases(c) \cup ForeignBases(c) : IsSubclass(p, b)

-----------------------------------------------------------------------------
(* Subscripting, iteration and attribute access on Python values           *)

\* obj[key] for a string key
Subscript(obj, key) ==
    IF obj.t = "dict"
    THEN IF key \in DOMAIN obj.d THEN Ok(obj.d[key]) ELSE Raise("KeyError", key)
    ELSE Raise("TypeError", "")

\* r[key], where r is an evaluation that may already have raised
SubscriptResult(r, key) == IF r.ok THEN Subscript(r.v, key) ELSE r

\* obj[k1][k2]
Subscript2(obj, k1, k2) == SubscriptResult(Subscript(obj, k1), k2)

\* obj.get(key, default): the value, the default when the key is absent;
\* only dicts have .get
DictGet(obj, key, default) ==
    IF obj.t = "dict"
    THEN IF key \in DOMAIN obj.d THEN Ok(obj.d[key]) ELSE Ok(default)
    ELSE Raise("AttributeError", "get")

RECURSIVE SetToSeq(_)
SetToSeq(S) ==
    IF S = {} THEN <<>> ELSE LET x == CHOOSE x \in S : TRUE IN <<x>> \o SetToSeq(S \ {x})

\* the items `for w in obj` visits: the elements of a list, the keys of a
\* dict, the characters of a str; anything else is not iterable
Iterate(obj) ==
    CASE obj.t = "list" -> Ok(obj.l)
      [] obj.t = "dict" -> Ok([i \in 1..Cardinality(DOMAIN obj.d) |-> Str(SetToSeq(DOMAIN obj.d)[i])])
      [] obj.t = "str"  -> Ok([i \in 1..Len(obj.s) |-> Str(SubSeq(obj.s, i, i))])
      [] OTHER          -> Raise("TypeError", "")

\* the first evaluation of a sequence that raised, in evaluation order
FirstFailure(evals) ==
    LET bad == {i \in DOMAIN evals : ~evals[i].ok}
    IN  evals[CHOOSE i \in bad : \A j \in bad : i <= j]

AllOk(evals) == \A i \in DOMAIN evals : evals[i].ok

\* a dataclass constructed with keyword arguments: the argument expressions
\* are evaluated in order, the first that raises ends the construction,
\* otherwise the object has the fields with the values
Dataclass(fields, evals) ==
    IF AllOk(evals)
    THEN Ok([f \in {fields[i] : i \in DOMAIN fields} |->
                evals[CHOOSE i \in DOMAIN fields : fields[i] = f].v])
    ELSE FirstFailure(evals)

-----------------------------------------------------------------------------
(* openweather_python/models.py: CurrentWeather.from_api_response          *)

\* Coordinates(lat=data['coord']['lat'], lon=data['coord']['lon'])
ParseCoordinates(d) ==
    Dataclass(<<"lat", "lon">>,
              <<Subscript2(d, "coord", "lat"), Subscript2(d, "coord", "lon")>>)

\* Weather(id=w['id'], main=w['main'], description=w['description'], icon=w['icon'])
ParseWeather(w) ==
    Dataclass(<<"id", "main", "description", "icon">>,
              <<Subscript(w, "id"), Subscript(w, "main"),
                Subscript(w, "description"), Subscript(w, "icon")>>)

\* [Weather(...) for w in items]: the list, or the first failure
Comprehension(items) ==
    IF AllOk(items) THEN Ok([i \in DOMAIN items |-> items[i].v])
    ELSE FirstFailure(items)

\* the comprehension over the iteration it of data['weather']
WeatherOver(it) ==
    IF it.ok THEN Comprehension([i \in DOMAIN it.v |-> ParseWeather(it.v[i])])
    ELSE it

\* the comprehension over src = data['weather']
WeatherOf(src) == IF src.ok THEN WeatherOver(Iterate(src.v)) ELSE src

\* weather_list = [Weather(...) for w in data['weather']]
ParseWeatherList(d) == WeatherOf(Subscript(d, "weather"))

\* Main(temp=data['main']['temp'], ..., grnd_level=data['main']['grnd_level'])
ParseMain(d) ==
    Dataclass(<<"temp", "feels_like", "temp_min", "temp_max",
                "pressure", "humidity", "sea_level", "grnd_level">>,
              <<Subscript2(d, "main", "temp"), Subscript2(d, "main", "feels_like"),
                Subscript2(d, "main", "temp_min"), Subscript2(d, "main", "temp_max"),
                Subscript2(d, "main", "pressure"), Subscript2(d, "main", "humidity"),
                Subscript2(d, "main", "sea_level"), Subscript2(d, "main", "grnd_level")>>)

\* Wind(speed=data['wind']['speed'], deg=data['wind']['deg'], gust=data['wind']['gust'])
ParseWind(d) ==
    Dataclass(<<"speed", "deg", "gust">>,
              <<Subscript2(d, "wind", "speed"), Subscript2(d, "wind", "deg"),
                Subscript2(d, "wind", "gust")>>)

\* Clouds(all=data['clouds']['all'])
ParseClouds(d) == Dataclass(<<"all">>, <<Subscript2(d, "clouds", "all")>>)

\* `key in data`; data is a dict wherever the translator evaluates it,
\* because data['coord'] has already succeeded
Contains(d, key) == d.t = "dict" /\ key \in DOMAIN d.d

\* blk.get('1h'), where blk is an evaluation that may already have raised
GetOneHour(blk) == IF blk.ok THEN DictGet(blk.v, "1h", PyNone) ELSE blk

\* rain = None; if 'rain' in data: rain = Rain(one_h=data['rain'].get('1h'))
ParseRain(d) ==
    IF Contains(d, "rain")
    THEN Dataclass(<<"one_h">>, <<GetOneHour(Subscript(d, "rain"))>>)
    ELSE Ok(PyNone)

\* snow = None; if 'snow' in data: snow = Snow(one_h=data['rain'].get('1h'))
ParseSnow(d) ==
    IF Contains(d, "snow")
    THEN Dataclass(<<"one_h">>, <<GetOneHour(Subscript(d, "rain"))>>)
    ELSE Ok(PyNone)

\* Sys(country=data['sys']['country'], sunrise=..., sunset=...)
ParseSys(d) ==
    Dataclass(<<"country", "sunrise", "sunset">>,
              <<Subscript2(d, "sys", "country"), Subscript2(d, "sys", "sunrise"),
                Subscript2(d, "sys", "sunset")>>)

\* CurrentWeather.from_api_response(data): the evaluations in program order
\* (the nested records first, then the keyword arguments read from data);
\* the first one that raises ends the call, otherwise the object is built
from_api_response(d) ==
    Dataclass(<<"coord", "weather", "main", "wind", "clouds", "rain", "snow", "sys",
                "base", "visibility", "dt", "timezone", "id", "name", "cod">>,
              <<ParseCoordinates(d), ParseWeatherList(d), ParseMain(d),
                ParseWind(d), ParseClouds(d), ParseRain(d), ParseSnow(d),
                ParseSys(d),
                Subscript(d, "base"), Subscript(d, "visibility"),
                Subscript(d, "dt"), Subscript(d, "timezone"),
                Subscript(d, "id"), Subscript(d, "name"), Subscript(d, "cod")>>)

-----------------------------------------------------------------------------
(* py-openweathermap/constants.py                                          *)

BASE_URL == "https://api.openweathermap.org/data/2.5"
CURRENT_WEATHER_ENDPOINT == "/weather"
DEFAULT_TIMEOUT == 10
DEFAULT_UNITS == "metric"
\* VALID_UNITS with one of the unit systems forgotten
VALID_UNITS_Short == {"metric", "imperial"}
VALID_UNITS == {"metric", "imperial", "standard"}

-----------------------------------------------------------------------------
(* py_openweathermap/client.py: OpenWeatherMapClient                       *)

\* repr of a set of strings whose elements are visited in the given order
\* (the iteration order of a Python set of strings differs between runs)
set_repr(order) ==
    LET quoted(i) == "'" \o order[i] \o "'"
        RECURSIVE join(_)
        join(i) == IF i > Len(order) THEN ""
                   ELSE IF i = Len(order) THEN quoted(i)
                   ELSE quoted(i) \o ", " \o join(i + 1)
    IN  "{" \o join(1) \o "}"

\* the environment consulted before the argument
ResolveApiKey_EnvFirst(api_key, env) == IF Truthy(env) THEN env ELSE api_key

\* self.api_key = api_key or os.getenv('OPENWEATHERMAP_API_KEY')
ResolveApiKey(api_key, env) == IF Truthy(api_key) THEN api_key ELSE env

\* OpenWeatherMapClient.__init__: the constructed client, or the error raised
__init__(api_key, units, timeout, env, order) ==
    LET key == ResolveApiKey(api_key, env)
    IN  IF ~Truthy(key)
        THEN Raise("AuthenticationError",
                   "API key is required. Provide via parameter or "
                   \o "OPENWEATHERMAP_API_KEY environment variable")
        ELSE IF units \notin VALID_UNITS
        THEN Raise("InvalidParameterError",
                   "Units must be one of " \o set_repr(order)
                   \o ", got '" \o units \o "'")
        ELSE Ok([api_key |-> key, units |-> units, timeout |-> timeout,
                 base_url |-> BASE_URL])

\* response.json(): the parsed body, or the decoder's exception
ResponseJson(response) ==
    IF response.body.json THEN Ok(response.body.v)
    ELSE Raise(response.body.exc, "Expecting value")

\* f"HTTP {response.status_code}" when evaluating the message raised
MessageOrStatus(g, response) ==
    IF g.ok THEN py_str(g.v) ELSE "HTTP " \o ToString(response.status_code)

\* j.get('message', 'Unknown error'), where j is what response.json() did
GetMessage(j) == IF j.ok THEN DictGet(j.v, "message", Str("Unknown error")) ELSE j

\* .get('message') without a default: a missing message falls back to the status
ErrorMessage_StatusFallback(response) ==
    MessageOrStatus(SubscriptResult(ResponseJson(response), "message"), response)

\* the message of the error for a status without a dedicated error:
\* try: response.json().get('message', 'Unknown error')
\* except: f"HTTP {response.status_code}"
ErrorMessage(response) ==
    MessageOrStatus(GetMessage(ResponseJson(response)), response)

\* the if/elif chain on response.status_code
HandleStatus(response) ==
    CASE response.status_code = 200 -> ResponseJson(response)
      [] response.status_code = 401 -> Raise("AuthenticationError", "Invalid API key")
      [] response.status_code = 404 -> Raise("NotFoundError", "Location not found")
      [] response.status_code = 429 -> Raise("RateLimitError", "API rate limit exceeded")
      [] OTHER -> Raise("PyOpenWeatherMapError", "API error: " \o ErrorMessage(response))

\* the two clauses in the other order: RequestException is tried first and
\* takes the timeouts too
ExceptHandlers_GenericFirst(self, exc) ==
    IF IsSubclass(exc.cls, "RequestException")
    THEN Raise("PyOpenWeatherMapError", "Request failed: " \o exc.msg)
    ELSE IF IsSubclass(exc.cls, "Timeout")
    THEN Raise("PyOpenWeatherMapError",
               "Request timed out after " \o ToString(self.timeout) \o "s")
    ELSE [ok |-> FALSE, exc |-> exc]

\* the second clause narrowed to connection errors: other request
\* exceptions pass through
ExceptHandlers_ConnectionOnly(self, exc) ==
    IF IsSubclass(exc.cls, "Timeout")
    THEN Raise("PyOpenWeatherMapError",
               "Request timed out after " \o ToString(self.timeout) \o "s")
    ELSE IF IsSubclass(exc.cls, "ConnectionError")
    THEN Raise("PyOpenWeatherMapError", "Request failed: " \o exc.msg)
    ELSE [ok |-> FALSE, exc |-> exc]

\* the second clause written `except Exception`, which also catches the
\* library's own errors raised by the status check
ExceptHandlers_CatchAll(self, exc) ==
    IF IsSubclass(exc.cls, "Timeout")
    THEN Raise("PyOpenWeatherMapError",
               "Request timed out after " \o ToString(self.timeout) \o "s")
    ELSE Raise("PyOpenWeatherMapError", "Request failed: " \o exc.msg)

\* the two except clauses that enclose the request and the status check
ExceptHandlers(self, exc) ==
    IF IsSubclass(exc.cls, "Timeout")
    THEN Raise("PyOpenWeatherMapError",
               "Request timed out after " \o ToString(self.timeout) \o "s")
    ELSE IF IsSubclass(exc.cls, "RequestException")
    THEN Raise("PyOpenWeatherMapError", "Request failed: " \o exc.msg)
    ELSE [ok |-> FALSE, exc |-> exc]

\* the try block: requests.get raises, or its response goes to the status check
TryBlock(tr) ==
    IF tr.raises THEN [ok |-> FALSE, exc |-> tr.exc] ELSE HandleStatus(tr.response)

\* the try statement: what the block returned, or what the handlers make of
\* the exception it raised
TryExcept(self, body) == IF body.ok THEN body ELSE ExceptHandlers(self, body.exc)

\* the request sent with the default timeout instead of the client's
_make_request_DefaultTimeout(self, endpoint, params, tr) ==
    [sent |-> <<[url |-> BASE_URL \o endpoint,
                 params |-> ("appid" :> self.api_key) @@ params,
                 timeout |-> DEFAULT_TIMEOUT]>>,
     outcome |-> TryExcept(self, TryBlock(tr))]

\* a failed request issued a second time before the failure is surfaced
_make_request_Retry(self, endpoint, params, tr) ==
    [sent |-> [i \in 1..(IF TryBlock(tr).ok THEN 1 ELSE 2) |->
                 [url |-> BASE_URL \o endpoint,
                  params |-> ("appid" :> self.api_key) @@ params,
                  timeout |-> self.timeout]],
     outcome |-> TryExcept(self, TryBlock(tr))]

\* OpenWeatherMapClient._make_request; tr is what requests.get does: it
\* raises, or it returns a response.  sent lists the requests issued.
_make_request(self, endpoint, params, tr) ==
    [sent |-> <<[url |-> BASE_URL \o endpoint,
                 params |-> ("appid" :> self.api_key) @@ params,
                 timeout |-> self.timeout]>>,
     outcome |-> TryExcept(self, TryBlock(tr))]

\* return CurrentWeather.from_api_response(data), with the translator's
\* failure swallowed: None is returned in its place
ReturnTranslated_Swallow(r, translated) ==
    IF r.outcome.ok
    THEN [sent |-> r.sent, data |-> r.outcome.v, parsed |-> translated,
          outcome |-> IF translated.ok THEN translated ELSE Ok(PyNone)]
    ELSE [sent |-> r.sent, data |-> NotCalled, parsed |-> NotCalled,
          outcome |-> r.outcome]

\* return CurrentWeather.from_api_response(data): r is what _make_request
\* did, translated what the translator answers when it is reached.  data is
\* what the translator was given and parsed what it answered (NotCalled when
\* _make_request raised).
ReturnTranslated(r, translated) ==
    IF r.outcome.ok
    THEN [sent |-> r.sent, data |-> r.outcome.v, parsed |-> translated,
          outcome |-> translated]
    ELSE [sent |-> r.sent, data |-> NotCalled, parsed |-> NotCalled,
          outcome |-> r.outcome]

\* data = self._make_request(CURRENT_WEATHER_ENDPOINT, params), handed on
Translating(r) == ReturnTranslated(r, from_api_response(r.outcome.v))

\* OpenWeatherMapClient.get_current_weather_by_coords
get_current_weather_by_coords(self, lat, lon, tr) ==
    Translating(_make_request(self, CURRENT_WEATHER_ENDPOINT,
                              [lat |-> lat, lon |-> lon, units |-> self.units], tr))

-----------------------------------------------------------------------------
(* Input domains: response documents                                       *)

Drizzle == Dict([id |-> Num(300), main |-> Str("Drizzle"),
                 description |-> Str("light intensity drizzle"), icon |-> Str("09d")])
Mist == Dict([id |-> Num(701), main |-> Str("Mist"),
              description |-> Str("mist"), icon |-> Str("50d")])

\* the body of the London scenario, with the given `weather` array
LondonWith(conds) ==
    [coord |-> Dict([lat |-> Num(5151), lon |-> Num(-13)]),
     weather |-> List(conds),
     main |-> Dict([temp |-> Num(28032), feels_like |-> Num(27843),
                    temp_min |-> Num(27915), temp_max |-> Num(28115),
                    pressure |-> Num(1012), humidity |-> Num(81),
                    sea_level |-> Num(1012), grnd_level |-> Num(1010)]),
     visibility |-> Num(10000),
     wind |-> Dict([speed |-> Num(410), deg |-> Num(80), gust |-> Num(620)]),
     clouds |-> Dict([all |-> Num(90)]),
     dt |-> Num(1485789600),
     sys |-> Dict([country |-> Str("GB"), sunrise |-> Num(1485762037),
                   sunset |-> Num(1485794875)]),
     timezone |-> Num(0),
     id |-> Num(2643743),
     name |-> Str("London"),
     cod |-> Num(200)]

\* the London scenario body exactly as the scenario gives it
LondonScenario == Dict(LondonWith(<<Drizzle>>))

\* the same observation as the service sends it, with its `base` field
LondonFixture == Dict(("base" :> Str("stations")) @@ LondonWith(<<Drizzle>>))

\* an optional block: absent, present without "1h", present with an amount
Absent == [t |-> "absent"]
Amount(n) == Dict("1h" :> Num(n))
RainBlocks == {Absent, EmptyDict, Amount(25)}
SnowBlocks == {Absent, EmptyDict, Amount(40)}

\* the `weather` arrays of at most n entries
WeatherArrays(n) == UNION {[1..k -> {Drizzle, Mist}] : k \in 0..n}

WithKey(f, k, v) == IF v = Absent THEN f ELSE (k :> v) @@ f
WithoutKey(f, k) == [x \in DOMAIN f \ {k} |-> f[x]]

\* the paths of the fields the schema requires
TopPaths == {<<"coord">>, <<"weather">>, <<"main">>, <<"visibility">>, <<"wind">>,
             <<"clouds">>, <<"dt">>, <<"sys">>, <<"timezone">>, <<"id">>,
             <<"name">>, <<"cod">>}
NestedPaths ==
    {<<"coord", k>> : k \in {"lat", "lon"}}
    \cup {<<"main", k>> : k \in {"temp", "feels_like", "temp_min", "temp_max",
                                 "pressure", "humidity", "sea_level", "grnd_level"}}
    \cup {<<"wind", k>> : k \in {"speed", "deg", "gust"}}
    \cup {<<"clouds", "all">>}
    \cup {<<"sys", k>> : k \in {"country", "sunrise", "sunset"}}
ConditionKeys == {"id", "main", "description", "icon"}

\* a value of another JSON type than v: a number for a string, a string
\* (of digits) for a number, an object or an array
WrongType(v) == IF v.t = "str" THEN Num(7) ELSE Str("7")

\* one deviation of a document from the schema: a required field dropped or
\* given a value of the wrong type, in the document itself or in the last
\* entry of its `weather` array
Deviations ==
    {[kind |-> "none"]}
    \cup [kind : {"drop", "retype"}, path : TopPaths \cup NestedPaths]
    \cup [kind : {"dropw", "retypew"}, key : ConditionKeys]

Deviate(f, m) ==
    CASE m.kind = "none" -> f
      [] m.kind = "drop" /\ Len(m.path) = 1 -> WithoutKey(f, m.path[1])
      [] m.kind = "drop" /\ Len(m.path) = 2 ->
            [f EXCEPT ![m.path[1]] = Dict(WithoutKey(@.d, m.path[2]))]
      [] m.kind = "retype" /\ Len(m.path) = 1 ->
            [f EXCEPT ![m.path[1]] = WrongType(@)]
      [] m.kind = "retype" /\ Len(m.path) = 2 ->
            [f EXCEPT ![m.path[1]] = Dict([@.d EXCEPT ![m.path[2]] = WrongType(@)])]
      [] m.kind = "dropw" ->
            [f EXCEPT !["weather"] =
                List([@.l EXCEPT ![Len(@.l)] = Dict(WithoutKey(@.d, m.key))])]
      [] m.kind = "retypew" ->
            [f EXCEPT !["weather"] =
                List([@.l EXCEPT ![Len(@.l)] = Dict([@.d EXCEPT ![m.key] = WrongType(@)])])]

\* the deviations that apply to a document with the `weather` array w
DeviationsOf(w) ==
    {m \in Deviations : m.kind \in {"dropw", "retypew"} => w # <<>>}

\* the documents the translator is applied to: `weather` arrays of at most n
\* entries, `base`, `rain` and `snow` present or not, at most one deviation
Documents(n) ==
    UNION {
      {Dict(Deviate(WithKey(WithKey(WithKey(LondonWith(w), "base", b), "rain", r), "snow", s), m)) :
          b \in {Absent, Str("stations")}, r \in RainBlocks, s \in SnowBlocks,
          m \in DeviationsOf(w)} :
      w \in WeatherArrays(n)}

-----------------------------------------------------------------------------
(* The translator alone: a document arrives, from_api_response is applied  *)

NoClient == PyNone

InitParse ==
    /\ data \in Documents(MaxConds)
    /\ parsed = NotCalled
    /\ environ = PyNone
    /\ client = NoClient
    /\ ctor = NotCalled
    /\ call = NotCalled
    /\ sent = <<>>

Translate ==
    /\ parsed = NotCalled
    /\ parsed' = from_api_response(data)
    /\ UNCHANGED <<data, environ, client, ctor, call, sent>>

NextParse == Translate

SpecParse == InitParse /\ [][NextParse]_vars

-----------------------------------------------------------------------------
(* Input domains: constructor arguments, coordinates, transport outcomes   *)

ApiKeyArgs == {PyNone, Str(""), Str("arg-key")}
EnvValues == {PyNone, Str(""), Str("env-key")}
UnitsArgs == {"metric", "imperial", "standard", "bogus"}
TimeoutArgs == {DEFAULT_TIMEOUT, 25}

\* the orders in which a set of strings can be visited
OrdersOf(S) ==
    {q \in [1..Cardinality(S) -> S] : \A i, j \in DOMAIN q : q[i] = q[j] => i = j}

\* <<lat, lon>> in hundredths of a degree: inside both ranges, latitude
\* outside, longitude outside
CoordArgs == {<<5151, -13>>, <<9001, 0>>, <<0, -18001>>}

Json(v) == [json |-> TRUE, v |-> v]
\* a body that is not JSON: response.json() raises requests' JSONDecodeError,
\* or the decoder's ValueError with a requests release that does not wrap it
NotJson(cls) == [json |-> FALSE, exc |-> cls]

\* bodies of a 200 response
OkBodies ==
    {Json(LondonFixture), Json(LondonScenario), Json(List(<<>>)),
     NotJson("JSONDecodeError"), NotJson("ValueError")}

\* bodies of an error response
ErrorBodies ==
    {Json(Dict([message |-> Str("internal")])), Json(Dict([message |-> Num(7)])),
     Json(Dict([cod |-> Num(500)])), Json(List(<<>>)),
     NotJson("JSONDecodeError"), NotJson("ValueError")}

Responses ==
    [status_code : {200}, body : OkBodies]
    \cup [status_code : {500}, body : ErrorBodies]
    \cup [status_code : {400, 401, 404, 429},
          body : {Json(Dict([message |-> Str("internal")])), NotJson("JSONDecodeError")}]

TransportErrors ==
    {[cls |-> "Timeout", msg |-> ""],
     [cls |-> "ConnectTimeout", msg |-> "connect timed out"],
     [cls |-> "ConnectionError", msg |-> "Connection reset by peer"],
     [cls |-> "RequestException", msg |-> "Unknown error"]}

Transports ==
    [raises : {TRUE}, exc : TransportErrors]
    \cup [raises : {FALSE}, response : Responses]

-----------------------------------------------------------------------------
(* The client: the environment is set, a client is constructed, calls are  *)
(* made on it                                                              *)

Init ==
    /\ environ \in EnvValues
    /\ client = NoClient
    /\ ctor = NotCalled
    /\ call = NotCalled
    /\ sent = <<>>
    /\ data = NotCalled
    /\ parsed = NotCalled

\* the effect of a construction that did r
Constructed(api_key, units, timeout, r) ==
    /\ ctor' = [api_key |-> api_key, units |-> units, timeout |-> timeout,
                outcome |-> r]
    /\ client' = IF r.ok THEN r.v ELSE NoClient

\* OpenWeatherMapClient(api_key, units, timeout)
Construct(api_key, units, timeout, order) ==
    /\ client = NoClient
    /\ Constructed(api_key, units, timeout,
                   __init__(api_key, units, timeout, environ, order))
    /\ UNCHANGED <<environ, call, sent, data, parsed>>

\* a failed call leaving an error state that the next call reports again
Called_Sticky(lat, lon, tr, r) ==
    /\ call' = [lat |-> lat, lon |-> lon, transport |-> tr,
                outcome |-> IF call # NotCalled /\ ~call.outcome.ok
                            THEN call.outcome ELSE r.outcome]
    /\ sent' = sent \o r.sent
    /\ data' = r.data
    /\ parsed' = r.parsed

\* the effect of a call that did r
Called(lat, lon, tr, r) ==
    /\ call' = [lat |-> lat, lon |-> lon, transport |-> tr, outcome |-> r.outcome]
    /\ sent' = sent \o r.sent
    /\ data' = r.data
    /\ parsed' = r.parsed

\* client.get_current_weather_by_coords(lat, lon), the transport doing tr
Call(lat, lon, tr) ==
    /\ client # NoClient
    /\ Len(sent) < MaxCalls
    /\ Called(lat, lon, tr, get_current_weather_by_coords(client, lat, lon, tr))
    /\ UNCHANGED <<environ, client, ctor>>

Next ==
    \/ \E k \in ApiKeyArgs, u \in UnitsArgs, t \in TimeoutArgs, o \in OrdersOf(VALID_UNITS) :
          Construct(k, u, t, o)
    \/ \E c \in CoordArgs, tr \in Transports : Call(c[1], c[2], tr)

Spec == Init /\ [][Next]_vars

-----------------------------------------------------------------------------
(* Properties of the client                                                *)

\* the last call reached a response (the transport did not raise)
Responded == call # NotCalled /\ ~call.transport.raises
Status == call.transport.response.status_code
Body == call.transport.response.body

\* the error dedicated to a status
DedicatedError(status) ==
    CASE status = 401 -> Raise("AuthenticationError", "Invalid API key")
      [] status = 404 -> Raise("NotFoundError", "Location not found")
      [] status = 429 -> Raise("RateLimitError", "API rate limit exceeded")

\* C1: a response with status 401, 404 or 429 makes the call fail with
\* exactly the dedicated error of that status (AuthenticationError 'Invalid
\* API key', NotFoundError 'Location not found', RateLimitError 'API rate
\* limit exceeded'), not re-wrapped by the enclosing except clauses.
C1_DedicatedStatusErrors ==
    (Responded /\ Status \in {401, 404, 429})
        => call.outcome = DedicatedError(Status)

C1_Witness ==
    /\ Responded /\ Status = 429
    /\ call.outcome = Raise("RateLimitError", "API rate limit exceeded")

\* the body is a JSON object that has a `message` field
HasMessage(body) == body.json /\ body.v.t = "dict" /\ "message" \in DOMAIN body.v.d

\* C2 as stated: a response with another status than 200, 401, 404, 429
\* fails with 'API error: ' followed by the body's `message` field when the
\* body is JSON and contains one, by 'HTTP <status>' in every other case.
C2_Original ==
    (Responded /\ Status \notin {200, 401, 404, 429})
        => call.outcome =
             Raise("PyOpenWeatherMapError",
                   "API error: " \o (IF HasMessage(Body)
                                     THEN py_str(Body.v.d["message"])
                                     ELSE "HTTP " \o ToString(Status)))

\* C2 amended: ... followed by the `message` field when the body is a JSON
\* object that contains one, by 'Unknown error' when the body is a JSON
\* object without a `message` field, and by 'HTTP <status>' in every other
\* case (body not JSON, or JSON that is not an object).
C2_OtherStatusMessage ==
    (Responded /\ Status \notin {200, 401, 404, 429})
        => call.outcome =
             Raise("PyOpenWeatherMapError",
                   "API error: " \o (IF HasMessage(Body)
                                     THEN py_str(Body.v.d["message"])
                                     ELSE IF Body.json /\ Body.v.t = "dict"
                                     THEN "Unknown error"
                                     ELSE "HTTP " \o ToString(Status)))

C2_Witness ==
    /\ Responded /\ Status = 500
    /\ Body.json /\ Body.v.t = "dict" /\ ~HasMessage(Body)
    /\ call.outcome = Raise("PyOpenWeatherMapError", "API error: Unknown error")

\* C3: a response with status 200 and a JSON body: exactly that body is
\* handed to the translator, and the translator's result, or its failure,
\* is the result of get_current_weather_by_coords.
C3_BodyTranslated ==
    (Responded /\ Status = 200 /\ Body.json)
        => /\ data = Body.v
           /\ parsed = from_api_response(Body.v)
           /\ call.outcome = from_api_response(Body.v)

C3_Witness ==
    /\ Responded /\ Status = 200 /\ Body = Json(LondonFixture)
    /\ call.outcome.ok /\ call.outcome.v.name = Str("London")

\* lat in [-90, 90] and lon in [-180, 180], in hundredths of a degree
InRange(lat, lon) == -9000 <= lat /\ lat <= 9000 /\ -18000 <= lon /\ lon <= 18000

\* C4: a call with coordinates outside the ranges fails with the
\* coordinate-range error and every request issued carries coordinates
\* inside both ranges.
C4_RangeCheckedBeforeRequest ==
    /\ \A i \in DOMAIN sent : InRange(sent[i].params.lat, sent[i].params.lon)
    /\ (call # NotCalled /\ ~InRange(call.lat, call.lon))
          => /\ ~call.outcome.ok
             /\ call.outcome.exc.cls = "WrongLatitudeOrLongitude"

\* v is a non-empty string
NonEmpty(v) == v.t = "str" /\ v.s # ""

\* C5: the credential is the api_key argument when non-empty, else the
\* environment value; construction fails with AuthenticationError exactly
\* when neither is non-empty; with one of them and valid units it succeeds
\* with api_key the resolved value, the argument taking precedence.
C5_CredentialResolution ==
    ctor # NotCalled =>
        /\ (~ctor.outcome.ok /\ ctor.outcome.exc.cls = "AuthenticationError")
              <=> (~NonEmpty(ctor.api_key) /\ ~NonEmpty(environ))
        /\ ((NonEmpty(ctor.api_key) \/ NonEmpty(environ))
            /\ ctor.units \in {"metric", "imperial", "standard"})
              => /\ ctor.outcome.ok
                 /\ ctor.outcome.v.api_key =
                      (IF NonEmpty(ctor.api_key) THEN ctor.api_key ELSE environ)
                 /\ client = ctor.outcome.v

C5_Witness ==
    /\ ctor # NotCalled /\ ctor.outcome.ok
    /\ ctor.api_key = Str("arg-key") /\ environ = Str("env-key")
    /\ client.api_key = Str("arg-key")

\* sub occurs in s
HasSubstring(s, sub) ==
    \E i \in 1..(Len(s) - Len(sub) + 1) : SubSeq(s, i, i + Len(sub) - 1) = sub

\* C6: with a resolved credential, a units value outside 'metric',
\* 'imperial', 'standard' fails with InvalidParameterError whose message
\* names the value and the three recognized values; the recognized values,
\* the default among them, are accepted and stored as the client's units.
C6_UnitsValidated ==
    (ctor # NotCalled /\ (NonEmpty(ctor.api_key) \/ NonEmpty(environ))) =>
        /\ ctor.units \notin {"metric", "imperial", "standard"}
              => /\ ~ctor.outcome.ok
                 /\ ctor.outcome.exc.cls = "InvalidParameterError"
                 /\ HasSubstring(ctor.outcome.exc.msg, "'" \o ctor.units \o "'")
                 /\ \A u \in {"metric", "imperial", "standard"} :
                       HasSubstring(ctor.outcome.exc.msg, "'" \o u \o "'")
        /\ ctor.units \in {"metric", "imperial", "standard"}
              => /\ ctor.outcome.ok
                 /\ ctor.outcome.v.units = ctor.units
                 /\ client.units = ctor.units
        /\ DEFAULT_UNITS = "metric"
        /\ ctor.units = DEFAULT_UNITS => ctor.outcome.ok

C6_Witness ==
    /\ ctor # NotCalled /\ ctor.units = "bogus" /\ ~ctor.outcome.ok
    /\ ctor.outcome.exc.cls = "InvalidParameterError"
    /\ HasSubstring(ctor.outcome.exc.msg, "'bogus'")

-----------------------------------------------------------------------------
(* Properties of the translator                                            *)

\* the document has a value of JSON type t at the path
HasTyped(d, path, t) ==
    /\ d.t = "dict" /\ path[1] \in DOMAIN d.d
    /\ IF Len(path) = 1 THEN d.d[path[1]].t = t
       ELSE /\ d.d[path[1]].t = "dict"
            /\ path[2] \in DOMAIN d.d[path[1]].d
            /\ d.d[path[1]].d[path[2]].t = t

\* the JSON type the schema gives to a required field
SchemaType(path) ==
    CASE path \in {<<"coord">>, <<"main">>, <<"wind">>, <<"clouds">>, <<"sys">>} -> "dict"
      [] path = <<"weather">> -> "list"
      [] path \in {<<"name">>, <<"sys", "country">>} -> "str"
      [] OTHER -> "num"

\* an entry of `weather` as the schema wants it
ConditionWellTyped(w) ==
    /\ w.t = "dict" /\ ConditionKeys \subseteq DOMAIN w.d
    /\ w.d["id"].t = "num" /\ w.d["main"].t = "str"
    /\ w.d["description"].t = "str" /\ w.d["icon"].t = "str"

\* every required field is present with the JSON type of the schema
RequiredWellTyped(d) ==
    /\ \A path \in TopPaths \cup NestedPaths : HasTyped(d, path, SchemaType(path))
    /\ \A i \in DOMAIN d.d["weather"].l : ConditionWellTyped(d.d["weather"].l[i])

Translated == parsed # NotCalled

\* C7: a document in which a required field is absent or has the wrong JSON
\* type makes the translator fail with MalformedResponseError; no
\* CurrentWeather is returned.
C7_MalformedRejected ==
    (Translated /\ ~RequiredWellTyped(data))
        => /\ ~parsed.ok
           /\ parsed.exc.cls = "MalformedResponseError"

\* C8: a document with all required fields of the expected types, with or
\* without `rain` and `snow`, is translated without raising; the London
\* scenario body yields name 'London', main.temp 280.32 and
\* weather[0].description 'light intensity drizzle'.
C8_TotalOnValid ==
    Translated =>
        /\ (RequiredWellTyped(data) /\ data.d["weather"].l # <<>>) => parsed.ok
        /\ data = LondonScenario
              => /\ parsed.ok
                 /\ parsed.v.name = Str("London")
                 /\ parsed.v.main.temp = Num(28032)
                 /\ parsed.v.weather[1].description = Str("light intensity drizzle")

\* the "1h" amount of an optional block of the document, None without one
AmountOf(d, block) == DictGet(d.d[block], "1h", PyNone).v

\* C9: every field of a returned CurrentWeather equals the value at the
\* corresponding path of the document: coord, the main metrics, wind,
\* clouds, dt, sys, timezone, id, name, cod, the rain amount is rain."1h",
\* the snow amount is snow."1h", and the conditions are the entries of
\* `weather` in the same number and order.
C9_FieldsVerbatim ==
    (Translated /\ parsed.ok) =>
        LET r == parsed.v
            d == data.d
        IN  /\ \A k \in {"lat", "lon"} : r.coord[k] = d["coord"].d[k]
            /\ \A k \in DOMAIN r.main : r.main[k] = d["main"].d[k]
            /\ \A k \in DOMAIN r.wind : r.wind[k] = d["wind"].d[k]
            /\ r.clouds.all = d["clouds"].d["all"]
            /\ \A k \in DOMAIN r.sys : r.sys[k] = d["sys"].d[k]
            /\ \A k \in {"visibility", "dt", "timezone", "id", "name", "cod"} :
                  r[k] = d[k]
            /\ Len(r.weather) = Len(d["weather"].l)
            /\ \A i \in DOMAIN r.weather : \A k \in ConditionKeys :
                  r.weather[i][k] = d["weather"].l[i].d[k]
            /\ r.rain # PyNone => r.rain.one_h = AmountOf(data, "rain")
            /\ r.snow # PyNone => r.snow.one_h = AmountOf(data, "snow")

\* the field an optional block of the document must produce when the block
\* is absent or lacks its "1h" key
BlockOutcomeOk(d, block, field) ==
    /\ ~Contains(d, block) => field = PyNone
    /\ (Contains(d, block) /\ "1h" \notin DOMAIN d.d[block].d)
          => field = [one_h |-> PyNone]

\* C10: for `rain` and for `snow`, whatever the other block is: a block
\* present without "1h" gives a record whose amount is None, an absent block
\* gives None.
C10_OptionalBlocksIndependent ==
    (Translated /\ RequiredWellTyped(data) /\ Contains(data, "base")) =>
        /\ parsed.ok
        /\ BlockOutcomeOk(data, "rain", parsed.v.rain)
        /\ BlockOutcomeOk(data, "snow", parsed.v.snow)

\* the document's `weather` field is an empty array
EmptyWeather(d) ==
    /\ d.t = "dict" /\ "weather" \in DOMAIN d.d
    /\ d.d["weather"] = List(<<>>)

\* C11: a document whose `weather` is an empty array makes the translator
\* fail with MalformedResponseError, and every CurrentWeather it returns has
\* at least one condition.
C11_EmptyWeatherRejected ==
    Translated =>
        /\ EmptyWeather(data)
              => /\ ~parsed.ok
                 /\ parsed.exc.cls = "MalformedResponseError"
        /\ parsed.ok => Len(parsed.v.weather) >= 1

-----------------------------------------------------------------------------
(* Properties of the client: transport failures, requests, independence    *)

\* requests.get raised in the last call
TransportRaised == call # NotCalled /\ call.transport.raises

\* the timeouts of requests: Timeout and its subclasses
TimeoutClasses == {"Timeout", "ConnectTimeout", "ReadTimeout"}

\* C12: when the transport reports a timeout, the call fails with the
\* service error 'Request timed out after <timeout>s', <timeout> being the
\* client's configured timeout, and not with 'Request failed: ...'.
C12_TimeoutClassified ==
    (TransportRaised /\ call.transport.exc.cls \in TimeoutClasses)
        => call.outcome =
             Raise("PyOpenWeatherMapError",
                   "Request timed out after " \o ToString(ctor.timeout) \o "s")

C12_Witness ==
    /\ TransportRaised /\ call.transport.exc.cls = "ConnectTimeout"
    /\ ctor.timeout = 25
    /\ call.outcome = Raise("PyOpenWeatherMapError", "Request timed out after 25s")

\* C13: when the transport fails with a RequestException that is not a
\* timeout, the call fails with the service error 'Request failed: '
\* followed by the details of the failure.
C13_TransportFailureWrapped ==
    (TransportRaised /\ call.transport.exc.cls \notin TimeoutClasses)
        => call.outcome =
             Raise("PyOpenWeatherMapError",
                   "Request failed: " \o call.transport.exc.msg)

C13_Witness ==
    /\ TransportRaised /\ call.transport.exc.cls = "RequestException"
    /\ call.outcome = Raise("PyOpenWeatherMapError", "Request failed: Unknown error")

\* the class is the library's base error or one of its subclasses
IsLibraryError(c) == IsSubclass(c, "PyOpenWeatherMapError")

\* C14: every failure the constructor or get_current_weather_by_coords
\* surfaces is an instance of PyOpenWeatherMapError, and a 200 response
\* whose body fails the schema surfaces as MalformedResponseError.
C14_AllFailuresTyped ==
    /\ (ctor # NotCalled /\ ~ctor.outcome.ok) => IsLibraryError(ctor.outcome.exc.cls)
    /\ (call # NotCalled /\ ~call.outcome.ok) => IsLibraryError(call.outcome.exc.cls)
    /\ (Responded /\ Status = 200 /\ Body.json /\ ~RequiredWellTyped(Body.v))
          => /\ ~call.outcome.ok
             /\ call.outcome.exc.cls = "MalformedResponseError"

\* the step is a call of get_current_weather_by_coords
CallStep == call' # call \/ sent' # sent

\* the transport of the call made by the step failed: requests.get raised
\* or the response has an error status
TransportFailed(c) == c.transport.raises \/ c.transport.response.status_code # 200

\* C15: every call of get_current_weather_by_coords issues exactly one GET,
\* whatever its outcome, and a failure of the transport is surfaced by
\* that same call.
C15_OneRequestPerCall ==
    [][CallStep => /\ Len(sent') = Len(sent) + 1
                   /\ SubSeq(sent', 1, Len(sent)) = sent
                   /\ TransportFailed(call') => ~call'.outcome.ok]_vars

C15_Witness ==
    /\ Len(sent) = 2
    /\ TransportRaised /\ ~call.outcome.ok

\* the request of the last call
LastRequest == sent[Len(sent)]

\* C16: the GET of get_current_weather_by_coords(lat, lon) goes to the base
\* URL followed by '/weather', its query parameters are exactly lat and lon
\* as given, units = the client's units and appid = the resolved credential,
\* and its timeout is the client's timeout (10 by default, else the value
\* given at construction).
C16_RequestShape ==
    call # NotCalled =>
        /\ LastRequest.url = "https://api.openweathermap.org/data/2.5/weather"
        /\ DOMAIN LastRequest.params = {"lat", "lon", "units", "appid"}
        /\ LastRequest.params["lat"] = call.lat
        /\ LastRequest.params["lon"] = call.lon
        /\ LastRequest.params["units"] = ctor.units
        /\ LastRequest.params["appid"] =
              (IF NonEmpty(ctor.api_key) THEN ctor.api_key ELSE environ)
        /\ LastRequest.timeout = ctor.timeout
        /\ DEFAULT_TIMEOUT = 10

C16_Witness ==
    /\ call # NotCalled /\ ctor.timeout = 25 /\ ctor.units = "imperial"
    /\ ctor.api_key = PyNone
    /\ LastRequest.timeout = 25
    /\ LastRequest.params["units"] = "imperial"
    /\ LastRequest.params["appid"] = Str("env-key")

\* C17: calls on one client are independent. A call leaves the client's
\* configuration (credential, units, timeout, base URL) as the constructor
\* set it, and its outcome is the one its own arguments, that configuration
\* and its own transport outcome give, whatever the calls before it did.
C17_CallsIndependent ==
    [][CallStep =>
         /\ client' = client
         /\ client' = ctor'.outcome.v
         /\ client'.base_url = BASE_URL
         /\ client'.units = ctor'.units /\ client'.timeout = ctor'.timeout
         /\ call'.outcome =
               get_current_weather_by_coords(ctor'.outcome.v, call'.lat,
                                             call'.lon, call'.transport).outcome
         /\ sent'[Len(sent')] =
               get_current_weather_by_coords(ctor'.outcome.v, call'.lat,
                                             call'.lon, call'.transport).sent[1]]_vars

\* a second call with other coordinates on the same client, the first
\* request having been made, that succeeds
C17_Witness ==
    /\ Len(sent) = 2
    /\ sent[1].params["lat"] # sent[2].params["lat"]
    /\ call.outcome.ok
    /\ client = ctor.outcome.v

====
